---------------------------- MODULE Spec2Model ----------------------------
(***************************************************************************)
(* Model of the extraction and normalisation pipeline of the two scrapers  *)
(*   src/parser/parser_products.py          (catalog cards)                *)
(*   src/parser/parser_for_product_props.py (product-detail sections)      *)
(*                                                                         *)
(* Texts are sequences of one-character tokens.  TLA+ strings are ASCII,   *)
(* so every Cyrillic letter is written as its Latin transliteration token  *)
(* ("v" for U+0432, "V" for U+0412, "zh" for U+0436 ...), the rouble sign  *)
(* as "RUB", U+00A0 as "NBSP", U+202F as "NNBSP" and U+00B2 as "SUP2".     *)
(*                                                                         *)
(* A markup element is [present, text]; a Python value is [t, s, n, k]:    *)
(* t is the Python type, s the characters of a str, and n, k the decimal   *)
(* n / 10^k of a number (k = 0 for an int).                                *)
(***************************************************************************)
EXTENDS Integers, Sequences, FiniteSets, TLC

VARIABLES
    \* parse_nutrition: the mapping, the loop's item, items seen, position
    nutrition, n_item, n_count, n_pc,
    \* parse_characteristics: the mapping, the loop's item and its locals
    characteristics, c_item, c_name, c_value, c_count, c_pc,
    \* parse_offer: the section, the mapping, position
    o_section, offer, o_pc,
    \* main of parser_for_product_props.py: the input rows, the rows done, the
    \* loop's locals, whether parse_all_sections was called for the row, the
    \* accumulated list, the final table, position
    df, index, row, det, inf, nutr, sostav, has_all_sections, invoked,
    product_data, all_products_data, final_df, m_pc,
    \* extract_product_data: the card, the mapping, the exception that left
    \* the function, position
    card, product, p_exc, p_pc

nutrVars == <<nutrition, n_item, n_count, n_pc>>
charVars == <<characteristics, c_item, c_name, c_value, c_count, c_pc>>
offerVars == <<o_section, offer, o_pc>>
mainVars == <<df, index, row, det, inf, nutr, sostav, has_all_sections, invoked,
              product_data, all_products_data, final_df, m_pc>>
cardVars == <<card, product, p_exc, p_pc>>
vars == <<nutrVars, charVars, offerVars, mainVars, cardVars>>

notNutr == <<charVars, offerVars, mainVars, cardVars>>
notChar == <<nutrVars, offerVars, mainVars, cardVars>>
notOffer == <<nutrVars, charVars, mainVars, cardVars>>
notMain == <<nutrVars, charVars, offerVars, cardVars>>
notCard == <<nutrVars, charVars, offerVars, mainVars>>

---------------------------------------------------------------------------
(* Bounds of the model *)

\* longest enumerated nutrition value text
MaxNutrLen == 2
\* most list items one nutrition section holds
MaxNutrItems == 2
\* most items one parameters list holds
MaxCharItems == 2
\* longest enumerated price text
MaxPriceLen == 2
\* most rows of the input table
MaxRows == 2

---------------------------------------------------------------------------
(* Python values *)

None == [t |-> "None", s |-> <<>>, n |-> 0, k |-> 0]
StrV(s) == [t |-> "str", s |-> s, n |-> 0, k |-> 0]
IntV(n) == [t |-> "int", s |-> <<>>, n |-> n, k |-> 0]

RECURSIVE FloatV(_, _)
\* the float n / 10^k; trailing zeros of the fraction are dropped so that
\* equal numbers are equal values (1.50 = 1.5)
FloatV(n, k) ==
    IF k > 0 /\ n % 10 = 0 THEN FloatV(n \div 10, k - 1)
    ELSE [t |-> "float", s |-> <<>>, n |-> n, k |-> k]

\* bool(value): None, '', 0 and 0.0 are falsy
Truthy(v) ==
    CASE v.t = "None" -> FALSE
      [] v.t = "str" -> v.s # <<>>
      [] OTHER -> v.n # 0

\* a markup element found by find(...), or the None that find returns
Elem(text) == [present |-> TRUE, text |-> text]
NoElem == [present |-> FALSE, text |-> <<>>]

\* dict[key] = value
Put(d, key, value) ==
    [x \in DOMAIN d \cup {key} |-> IF x = key THEN value ELSE d[x]]

\* d.update(e)
Update(d, e) ==
    [x \in DOMAIN d \cup DOMAIN e |-> IF x \in DOMAIN e THEN e[x] ELSE d[x]]

EmptyDict == [x \in {} |-> None]

---------------------------------------------------------------------------
(* Python str operations *)

DecDigits == <<"0", "1", "2", "3", "4", "5", "6", "7", "8", "9">>

IsDecimal(c) == \E i \in 1..Len(DecDigits) : DecDigits[i] = c

DigitVal(c) == (CHOOSE i \in 1..Len(DecDigits) : DecDigits[i] = c) - 1

\* str.isdigit: the decimal digits and digit-like characters such as U+00B2
IsDigit(c) == IsDecimal(c) \/ c = "SUP2"

\* str.isspace: U+00A0 and U+202F are whitespace to Python
IsSpace(c) == c \in {" ", "NBSP", "NNBSP"}

RECURSIVE LStrip(_)
LStrip(s) == IF s # <<>> /\ IsSpace(Head(s)) THEN LStrip(Tail(s)) ELSE s

RECURSIVE RStrip(_)
RStrip(s) ==
    IF s # <<>> /\ IsSpace(s[Len(s)]) THEN RStrip(SubSeq(s, 1, Len(s) - 1)) ELSE s

\* str.strip()
Strip(s) == RStrip(LStrip(s))

\* str.replace(c, '')
Remove(s, c) == SelectSeq(s, LAMBDA x : x # c)

\* str.replace(c, d) for single characters
Replace(s, c, d) == [i \in 1..Len(s) |-> IF s[i] = c THEN d ELSE s[i]]

Count(s, c) == Cardinality({i \in 1..Len(s) : s[i] = c})

Contains(s, c) == \E i \in 1..Len(s) : s[i] = c

RECURSIVE DigitsValue(_)
\* the number a run of decimal digits denotes
DigitsValue(s) ==
    IF s = <<>> THEN 0
    ELSE 10 * DigitsValue(SubSeq(s, 1, Len(s) - 1)) + DigitVal(s[Len(s)])

\* float(s): surrounding whitespace is ignored, then digits with at most one
\* point and at least one digit.  Signs, exponents, underscores, "inf" and
\* "nan" need characters the modelled texts do not contain.  ok = FALSE is
\* ValueError.
PyFloat(s) ==
    LET t == Strip(s)
        good == /\ \A i \in 1..Len(t) : IsDecimal(t[i]) \/ t[i] = "."
                /\ Count(t, ".") <= 1
                /\ \E i \in 1..Len(t) : IsDecimal(t[i])
        p == CHOOSE i \in 1..(Len(t) + 1) :
                 \/ i = Len(t) + 1 /\ ~Contains(t, ".")
                 \/ i <= Len(t) /\ t[i] = "."
    IN  IF good
        THEN [ok |-> TRUE,
              v |-> FloatV(DigitsValue(Remove(t, ".")), IF p > Len(t) THEN 0 ELSE Len(t) - p)]
        ELSE [ok |-> FALSE, v |-> None]

\* int(s): surrounding whitespace is ignored, then decimal digits only
PyInt(s) ==
    LET t == Strip(s)
    IN  IF t # <<>> /\ \A i \in 1..Len(t) : IsDecimal(t[i])
        THEN [ok |-> TRUE, v |-> IntV(DigitsValue(t))]
        ELSE [ok |-> FALSE, v |-> None]

RECURSIVE SeqsUpTo(_, _)
\* every sequence over alphabet of length at most n
SeqsUpTo(alphabet, n) ==
    IF n = 0 THEN {<<>>}
    ELSE LET shorter == SeqsUpTo(alphabet, n - 1)
         IN  shorter \cup {Append(s, c) : s \in shorter, c \in alphabet}

---------------------------------------------------------------------------
(* Numerals *)

RECURSIVE Pow10(_)
Pow10(k) == IF k = 0 THEN 1 ELSE 10 * Pow10(k - 1)

\* f is digits, or digits around exactly one point, with at least one digit
IsNumeral(f) ==
    \E p \in 0..Len(f) :
        /\ p > 0 => f[p] = "."
        /\ \A i \in 1..Len(f) : i # p => IsDecimal(f[i])
        /\ Len(f) > (IF p > 0 THEN 1 ELSE 0)

\* the recorded number v equals the numeral f
DenotesNumeral(v, f) ==
    LET p == IF Contains(f, ".") THEN CHOOSE i \in 1..Len(f) : f[i] = "." ELSE Len(f) + 1
        whole == SubSeq(f, 1, p - 1)
        frac == SubSeq(f, p + 1, Len(f))
    IN  v.n * Pow10(Len(frac)) =
            (DigitsValue(whole) * Pow10(Len(frac)) + DigitsValue(frac)) * Pow10(v.k)

---------------------------------------------------------------------------
(* parse_nutrition *)

\* body of the loop over the list items: one item's title and the pl-text
\* div that follows it
NutritionItemFloatOnly(facts, item) ==
    IF ~item.title.present THEN facts
    ELSE IF ~item.value.present THEN facts
    ELSE LET name == Strip(item.title.text)
             value == Strip(item.value.text)
             clean_value == SelectSeq(value, LAMBDA c : IsDigit(c) \/ c = ".")
         IN  IF clean_value = <<>> THEN facts
             ELSE IF PyFloat(clean_value).ok
                  THEN Put(facts, name, PyFloat(clean_value).v)
                  ELSE facts

NutritionItem(facts, item) ==
    IF ~item.title.present THEN facts
    ELSE IF ~item.value.present THEN facts
    ELSE LET name == Strip(item.title.text)
             value == Strip(item.value.text)
             clean_value == SelectSeq(value, LAMBDA c : IsDigit(c) \/ c = ".")
             parsed == IF Contains(clean_value, ".")
                       THEN PyFloat(clean_value)
                       ELSE PyInt(clean_value)
         IN  IF clean_value = <<>> THEN facts
             ELSE IF parsed.ok THEN Put(facts, name, parsed.v)
                  ELSE facts   \* ValueError, caught per item

RECURSIVE NutritionItems(_, _)
NutritionItems(facts, items) ==
    IF items = <<>> THEN facts
    ELSE NutritionItems(NutritionItem(facts, Head(items)), Tail(items))

\* parse_nutrition(section): a section is [list_container, items]
ParseNutrition(section) ==
    IF ~section.list_container THEN EmptyDict
    ELSE NutritionItems(EmptyDict, section.items)

NutrAlphabet == {"1", ".", "g"}

NutrValueTexts ==
    SeqsUpTo(NutrAlphabet, MaxNutrLen)
        \cup { <<"5", ".", "4", " ", "g">>, <<"1", "2", "0", " ", "k">>,
               <<"1", ".", "2", ".", "3">>, <<"SUP2">>, <<"1", "SUP2">>,
               <<" ", "7", "NBSP">> }

NutrTitles == { <<"B", " ">>, <<"K">> }

NutrItems ==
    [title : {NoElem} \cup {Elem(x) : x \in NutrTitles},
     value : {NoElem} \cup {Elem(x) : x \in NutrValueTexts}]

NoNutrItem == [title |-> NoElem, value |-> NoElem]

NutrIdle ==
    /\ nutrition = EmptyDict
    /\ n_item = NoNutrItem
    /\ n_count = 0
    /\ n_pc = "idle"

NutrInit ==
    /\ nutrition = EmptyDict
    /\ n_item = NoNutrItem
    /\ n_count = 0
    /\ n_pc = "start"

\* section.find(... __list): no container returns the empty mapping
NutrNoContainer ==
    /\ UNCHANGED notNutr
    /\ n_pc = "start"
    /\ n_pc' = "done"
    /\ UNCHANGED <<nutrition, n_item, n_count>>

NutrContainer ==
    /\ UNCHANGED notNutr
    /\ n_pc = "start"
    /\ n_pc' = "loop"
    /\ UNCHANGED <<nutrition, n_item, n_count>>

\* one iteration of the loop over the list items
NutrItem ==
    /\ UNCHANGED notNutr
    /\ n_pc = "loop"
    /\ n_count < MaxNutrItems
    /\ \E item \in NutrItems :
        /\ n_item' = item
        /\ nutrition' = NutritionItem(nutrition, item)
    /\ n_count' = n_count + 1
    /\ UNCHANGED n_pc

NutrReturn ==
    /\ UNCHANGED notNutr
    /\ n_pc = "loop"
    /\ n_pc' = "done"
    /\ UNCHANGED <<nutrition, n_item, n_count>>

NutrNext == NutrNoContainer \/ NutrContainer \/ NutrItem \/ NutrReturn


---------------------------------------------------------------------------
(* parse_characteristics *)

CyrUpper == <<"A", "B", "V", "G", "D", "E", "Yo", "Zh", "Z", "I", "J", "K", "L", "M", "N", "O", "P", "R", "S", "T", "U", "F", "H", "C", "Ch", "Sh", "Sch", "Hs", "Y", "Ss", "Eh", "Yu", "Ya">>
CyrLower == <<"a", "b", "v", "g", "d", "e", "yo", "zh", "z", "i", "j", "k", "l", "m", "n", "o", "p", "r", "s", "t", "u", "f", "h", "c", "ch", "sh", "sch", "hs", "y", "ss", "eh", "yu", "ya">>

\* str.lower()
Lower(s) ==
    [i \in 1..Len(s) |->
        IF \E j \in 1..Len(CyrUpper) : CyrUpper[j] = s[i]
        THEN CyrLower[CHOOSE j \in 1..Len(CyrUpper) : CyrUpper[j] = s[i]]
        ELSE s[i]]

\* keyword in s
IsSubstring(keyword, s) ==
    \E i \in 0..(Len(s) - Len(keyword)) : SubSeq(s, i + 1, i + Len(keyword)) = keyword

RECURSIVE CollapseSpaces(_)
\* re.sub(r'\s+', ' ', s)
CollapseSpaces(s) ==
    IF s = <<>> THEN <<>>
    ELSE IF IsSpace(Head(s))
         THEN <<" ">> \o CollapseSpaces(LStrip(s))
         ELSE <<Head(s)>> \o CollapseSpaces(Tail(s))

\* the keywords that make a value numeric: ves, soderzhanie, temperatura, srok
keywords ==
    { <<"v", "e", "s">>,
      <<"s", "o", "d", "e", "r", "zh", "a", "n", "i", "e">>,
      <<"t", "e", "m", "p", "e", "r", "a", "t", "u", "r", "a">>,
      <<"s", "r", "o", "k">> }

N_VesKg == <<"V", "e", "s", " ", "k", "g">>
N_SoderzhanieKakao == <<"S", "o", "d", "e", "r", "zh", "a", "n", "i", "e", " ", "k", "a", "k", "a", "o", " ", "%">>
N_TipProdukta == <<"T", "i", "p", " ", "p", "r", "o", "d", "u", "k", "t", "a">>
N_VidShokolada == <<"V", "i", "d", " ", "sh", "o", "k", "o", "l", "a", "d", "a">>
N_TipUpakovki == <<"T", "i", "p", " ", "u", "p", "a", "k", "o", "v", "k", "i">>

\* name_mapping.get(name, name)
name_mapping(name) ==
    CASE name = N_VesKg -> <<"V", "e", "s", " ", "(", "k", "g", ")">>
      [] name = N_SoderzhanieKakao -> <<"K", "a", "k", "a", "o", " ", "(", "%", ")">>
      [] name = N_TipProdukta -> <<"T", "i", "p">>
      [] name = N_VidShokolada -> <<"T", "i", "p", " ", "sh", "o", "k", "o", "l", "a", "d", "a">>
      [] name = N_TipUpakovki -> <<"U", "p", "a", "k", "o", "v", "k", "a">>
      [] OTHER -> name

\* An item of the parameters list: the secondary-text span that names it and
\* the five places a value can come from.  meta is [present, content], content
\* being the element's content attribute.
CharItem(name_span, brand, manufacturer, weight, meta, value_span) ==
    [name_span |-> name_span, brand |-> brand, manufacturer |-> manufacturer,
     weight |-> weight, meta |-> meta, value_span |-> value_span]

Meta(content) == [present |-> TRUE, content |-> content]
NoMeta == [present |-> FALSE, content |-> NoElem]

\* the name: whitespace collapsed, commas removed
CharName(item) ==
    Strip(Remove(Strip(CollapseSpaces(item.name_span.text)), ","))

\* a wrong order of the chain: the value attribute before the markers
CharValueMetaFirst(item) ==
    IF item.meta.present
    THEN Strip(IF item.meta.content.present THEN item.meta.content.text ELSE <<>>)
    ELSE IF item.brand.present THEN Strip(item.brand.text)
    ELSE IF item.manufacturer.present THEN Strip(item.manufacturer.text)
    ELSE IF item.weight.present THEN Strip(item.weight.text)
    ELSE IF item.value_span.present THEN Strip(item.value_span.text) ELSE <<>>

\* the value: brand, manufacturer, weight, meta content, primary-text span
CharValue(item) ==
    IF item.brand.present THEN Strip(item.brand.text)
    ELSE IF item.manufacturer.present THEN Strip(item.manufacturer.text)
    ELSE IF item.weight.present THEN Strip(item.weight.text)
    ELSE IF item.meta.present
         THEN Strip(IF item.meta.content.present THEN item.meta.content.text ELSE <<>>)
         ELSE IF item.value_span.present THEN Strip(item.value_span.text) ELSE <<>>

\* float(value.replace(',', '.')) for a name with a keyword; ValueError keeps
\* the string
CharCoerce(name, value) ==
    IF \E keyword \in keywords : IsSubstring(keyword, Lower(name))
    THEN LET parsed == PyFloat(Replace(value, ",", "."))
         IN  IF parsed.ok THEN parsed.v ELSE StrV(value)
    ELSE StrV(value)

\* if name and value: characteristics[name] = value
CharStore(chars, name, value) ==
    LET coerced == CharCoerce(name, value)
        mapped == name_mapping(name)
    IN  IF mapped # <<>> /\ Truthy(coerced) THEN Put(chars, mapped, coerced) ELSE chars

\* one iteration of the loop over the items
CharacteristicsItem(chars, item) ==
    IF ~item.name_span.present THEN chars
    ELSE CharStore(chars, CharName(item), CharValue(item))

RECURSIVE CharacteristicsItems(_, _)
CharacteristicsItems(chars, items) ==
    IF items = <<>> THEN chars
    ELSE CharacteristicsItems(CharacteristicsItem(chars, Head(items)), Tail(items))

\* parse_characteristics(soup): soup is the sequence of its items
ParseCharacteristics(soup) == CharacteristicsItems(EmptyDict, soup)

CharNameTexts ==
    { <<>>,
      <<"V", "e", "s", ",", " ", " ", "k", "g">>,
      <<"S", "R", "O", "K">>,
      <<"V", "k", "u", "s">> }

CharValueTexts ==
    { <<>>, <<"x">>, <<"0">>, <<"1", "2">>, <<"1", ",", "5", ",">> }

CharItems ==
    { CharItem(n, b, m, w, a, v) :
        n \in {NoElem} \cup {Elem(x) : x \in CharNameTexts},
        b \in {NoElem, Elem(<<>>), Elem(<<"b", " ">>)},
        m \in {NoElem, Elem(<<"m">>)},
        w \in {NoElem, Elem(<<"0", ",", "5">>)},
        a \in {NoMeta, Meta(NoElem), Meta(Elem(<<"1", "2">>))},
        v \in {NoElem} \cup {Elem(x) : x \in CharValueTexts} }

NoCharItem == CharItem(NoElem, NoElem, NoElem, NoElem, NoMeta, NoElem)

CharIdle ==
    /\ characteristics = EmptyDict
    /\ c_item = NoCharItem
    /\ c_name = <<>>
    /\ c_value = <<>>
    /\ c_count = 0
    /\ c_pc = "idle"

CharInit ==
    /\ characteristics = EmptyDict
    /\ c_item = NoCharItem
    /\ c_name = <<>>
    /\ c_value = <<>>
    /\ c_count = 0
    /\ c_pc = "loop"

\* an item without a name span: continue (the item is forgotten, as in
\* CharRecord)
CharNoName ==
    /\ c_pc = "loop"
    /\ c_count < MaxCharItems
    /\ \E item \in CharItems :
        /\ ~item.name_span.present
        /\ c_item' = NoCharItem
    /\ c_count' = c_count + 1
    /\ UNCHANGED <<characteristics, c_name, c_value, c_pc>>
    /\ UNCHANGED notChar

\* name and value of the next item are read
CharExtract ==
    /\ c_pc = "loop"
    /\ c_count < MaxCharItems
    /\ \E item \in CharItems :
        /\ item.name_span.present
        /\ c_item' = item
        /\ c_name' = CharName(item)
        /\ c_value' = CharValue(item)
    /\ c_count' = c_count + 1
    /\ c_pc' = "record"
    /\ UNCHANGED characteristics
    /\ UNCHANGED notChar

\* coercion, synonym and recording.  The item is dead once its iteration
\* ends: the model forgets it to keep the states of later iterations apart
\* only by what they can still read.
CharRecord ==
    /\ c_pc = "record"
    /\ characteristics' = CharStore(characteristics, c_name, c_value)
    /\ c_item' = NoCharItem
    /\ c_name' = <<>>
    /\ c_value' = <<>>
    /\ c_pc' = "loop"
    /\ UNCHANGED c_count
    /\ UNCHANGED notChar

CharReturn ==
    /\ c_pc = "loop"
    /\ c_pc' = "done"
    /\ UNCHANGED <<characteristics, c_item, c_name, c_value, c_count>>
    /\ UNCHANGED notChar

CharNext == CharNoName \/ CharExtract \/ CharRecord \/ CharReturn


---------------------------------------------------------------------------
(* parse_offer *)

\* the keys of the offer mapping: Nazvanie, Tekuschaya cena, Staraya cena,
\* Skidka, Rejting, Kolichestvo ocenok, Kolichestvo otzyvov
K_Nazvanie == <<"N", "a", "z", "v", "a", "n", "i", "e">>
K_TekuschayaCena == <<"T", "e", "k", "u", "sch", "a", "ya", " ", "c", "e", "n", "a">>
K_StarayaCena == <<"S", "t", "a", "r", "a", "ya", " ", "c", "e", "n", "a">>
K_Skidka == <<"S", "k", "i", "d", "k", "a">>
K_Rejting == <<"R", "e", "j", "t", "i", "n", "g">>
K_KolichestvoOcenok == <<"K", "o", "l", "i", "ch", "e", "s", "t", "v", "o", " ", "o", "c", "e", "n", "o", "k">>
K_KolichestvoOtzyvov == <<"K", "o", "l", "i", "ch", "e", "s", "t", "v", "o", " ", "o", "t", "z", "y", "v", "o", "v">>

OfferKeys ==
    {K_Nazvanie, K_TekuschayaCena, K_StarayaCena, K_Skidka, K_Rejting,
     K_KolichestvoOcenok, K_KolichestvoOtzyvov}

\* the mapping parse_offer starts from: every key None
OfferEmpty == [x \in OfferKeys |-> None]

\* An offer section: the elements parse_offer looks for.  rating_block is
\* [present, score, count].
OfferSection(title, price_current, price_old, discount, rating_block) ==
    [title |-> title, price_current |-> price_current, price_old |-> price_old,
     discount |-> discount, rating_block |-> rating_block]

RatingBlock(score, count) == [present |-> TRUE, score |-> score, count |-> count]
NoRatingBlock == [present |-> FALSE, score |-> NoElem, count |-> NoElem]

\* float(text.replace(RUB, '').replace(' ', '').replace(NNBSP, ''))
OfferPrice(text) == PyFloat(Remove(Remove(Remove(text, "RUB"), " "), "NNBSP"))

RECURSIVE DigitRuns(_)
\* re.findall(r'\d+', s): the maximal runs of decimal digits
DigitRuns(s) ==
    IF s = <<>> THEN <<>>
    ELSE IF ~IsDecimal(Head(s)) THEN DigitRuns(Tail(s))
    ELSE LET n == CHOOSE k \in 1..Len(s) :
                      /\ \A i \in 1..k : IsDecimal(s[i])
                      /\ k = Len(s) \/ ~IsDecimal(s[k + 1])
         IN  <<SubSeq(s, 1, n)>> \o DigitRuns(SubSeq(s, n + 1, Len(s)))

\* the five try blocks, each from the mapping so far to the mapping after it
OfferTitle(off, section) ==
    IF section.title.present
    THEN Put(off, K_Nazvanie, StrV(Strip(section.title.text)))
    ELSE off   \* AttributeError

OfferCurrent(off, section) ==
    IF section.price_current.present /\ OfferPrice(section.price_current.text).ok
    THEN Put(off, K_TekuschayaCena, OfferPrice(section.price_current.text).v)
    ELSE off   \* AttributeError, ValueError

OfferOld(off, section) ==
    IF section.price_old.present /\ OfferPrice(section.price_old.text).ok
    THEN Put(off, K_StarayaCena, OfferPrice(section.price_old.text).v)
    ELSE off   \* AttributeError, ValueError

OfferDiscount(off, section) ==
    IF section.discount.present
    THEN Put(off, K_Skidka, StrV(Strip(section.discount.text)))
    ELSE off   \* AttributeError

\* the score is stored before the counts are looked for; any exception ends
\* the block with what was stored so far
OfferRating(off, section) ==
    LET block == section.rating_block
        score == PyFloat(Strip(block.score.text))
        numbers == DigitRuns(block.count.text)
    IN  IF ~block.present \/ ~block.score.present \/ ~score.ok THEN off
        ELSE LET rated == Put(off, K_Rejting, score.v)
             IN  IF ~block.count.present THEN rated
                 ELSE IF Len(numbers) >= 2
                      THEN Put(Put(rated, K_KolichestvoOcenok, PyInt(numbers[1]).v),
                               K_KolichestvoOtzyvov, PyInt(numbers[2]).v)
                      ELSE rated

\* parse_offer(section)
ParseOffer(section) ==
    OfferRating(
        OfferDiscount(
            OfferOld(OfferCurrent(OfferTitle(OfferEmpty, section), section), section),
            section),
        section)

PriceAlphabet == {"1", ",", ".", " ", "NBSP", "NNBSP", "RUB"}

\* "1 234,50 RUB" and the same with narrow no-break spaces
PriceSamples ==
    { <<"1", " ", "2", "3", "4", ",", "5", "0", " ", "RUB">>,
      <<"1", "NNBSP", "2", "3", "4", "NNBSP", "RUB">>,
      <<"9", "9", ".", "9", "0">> }

OfferPriceTexts == SeqsUpTo(PriceAlphabet, MaxPriceLen) \cup PriceSamples

RatingBlocks ==
    {NoRatingBlock} \cup
    { RatingBlock(s, c) :
        s \in {NoElem, Elem(<<" ", "4", ".", "5">>), Elem(<<"x">>)},
        c \in {NoElem, Elem(<<"1", "2", " ", "o", ",", " ", "3", " ", "o">>), Elem(<<"7">>)} }

OfferSections ==
    { OfferSection(t, c, o, d, r) :
        t \in {NoElem, Elem(<<"T", " ">>)},
        c \in {NoElem} \cup {Elem(x) : x \in OfferPriceTexts},
        o \in {NoElem, Elem(<<"2", "0", "0", " ", "RUB">>), Elem(<<"2", ",", "5">>)},
        d \in {NoElem, Elem(<<"-", "1", "5", "%">>)},
        r \in RatingBlocks }

NoOfferSection == OfferSection(NoElem, NoElem, NoElem, NoElem, NoRatingBlock)

OfferIdle ==
    /\ o_section = NoOfferSection
    /\ offer = OfferEmpty
    /\ o_pc = "idle"

OfferInit ==
    /\ o_section \in OfferSections
    /\ offer = OfferEmpty
    /\ o_pc = "title"

OfferTitleStep ==
    /\ o_pc = "title"
    /\ offer' = OfferTitle(offer, o_section)
    /\ o_pc' = "current"
    /\ UNCHANGED o_section
    /\ UNCHANGED notOffer

OfferCurrentStep ==
    /\ o_pc = "current"
    /\ offer' = OfferCurrent(offer, o_section)
    /\ o_pc' = "old"
    /\ UNCHANGED o_section
    /\ UNCHANGED notOffer

OfferOldStep ==
    /\ o_pc = "old"
    /\ offer' = OfferOld(offer, o_section)
    /\ o_pc' = "discount"
    /\ UNCHANGED o_section
    /\ UNCHANGED notOffer

OfferDiscountStep ==
    /\ o_pc = "discount"
    /\ offer' = OfferDiscount(offer, o_section)
    /\ o_pc' = "rating"
    /\ UNCHANGED o_section
    /\ UNCHANGED notOffer

OfferRatingStep ==
    /\ o_pc = "rating"
    /\ offer' = OfferRating(offer, o_section)
    /\ o_pc' = "done"
    /\ UNCHANGED o_section
    /\ UNCHANGED notOffer

OfferNext ==
    OfferTitleStep \/ OfferCurrentStep \/ OfferOldStep \/ OfferDiscountStep \/ OfferRatingStep

---------------------------------------------------------------------------
(* parse_additional_info *)

K_Sostav == <<"S", "o", "s", "t", "a", "v">>

RECURSIVE Join(_)
\* ' '.join(texts)
Join(texts) ==
    IF texts = <<>> THEN <<>>
    ELSE IF Len(texts) = 1 THEN texts[1]
    ELSE texts[1] \o <<" ">> \o Join(Tail(texts))

\* parse_additional_info(section): a section is [marked_text, paragraphs],
\* paragraphs being the texts of the p elements of the marked-text block
ParseAdditionalInfo(section) ==
    LET result == [x \in {K_Sostav} |-> StrV(<<>>)]
        paragraphs == [i \in 1..Len(section.paragraphs) |-> Strip(section.paragraphs[i])]
    IN  IF ~section.marked_text THEN result
        ELSE IF paragraphs # <<>> THEN Put(result, K_Sostav, StrV(Join(paragraphs)))
        ELSE result

---------------------------------------------------------------------------
(* parse_all_sections and main of parser_for_product_props.py *)

\* combined.update(...) in a wrong order: the characteristics last
ParseAllSectionsParamsLast(sections) ==
    Update(Update(Update(Update(EmptyDict, ParseOffer(sections[2])),
                         ParseNutrition(sections[3])),
                  ParseAdditionalInfo(sections[4])),
           ParseCharacteristics(sections[1]))

\* parse_all_sections(sections): characteristics, offer, nutrition and
\* composition, each update overwriting the keys it shares with the earlier
ParseAllSections(sections) ==
    LET params == ParseCharacteristics(sections[1])
        off == ParseOffer(sections[2])
        nutr_facts == ParseNutrition(sections[3])
        additional_info == ParseAdditionalInfo(sections[4])
    IN  Update(Update(Update(Update(EmptyDict, params), off), nutr_facts), additional_info)

\* the identity keys main attaches: Ssylka (link) and Artikul (product id)
K_Ssylka == <<"S", "s", "y", "l", "k", "a">>
K_Artikul == <<"A", "r", "t", "i", "k", "u", "l">>

\* a gate that forgets the nutrition collection
HasAllSectionsButNutrition(d, i, n, s) == Len(d) > 0 /\ Len(i) > 0 /\ Len(s) > 0

\* all([len(det) > 0, len(inf) > 0, len(nutr) > 0, len(sostav) > 0])
HasAllSections(d, i, n, s) == Len(d) > 0 /\ Len(i) > 0 /\ Len(n) > 0 /\ Len(s) > 0

\* product_data['Ssylka'] = row['link'];
\* product_data['Artikul'] = row.get('product_id', '')
WithIdentity(data, r) ==
    Put(Put(data, K_Ssylka, StrV(r.link)),
        K_Artikul, StrV(IF r.product_id.present THEN r.product_id.text ELSE <<>>))

\* a driver that records only the products that passed the gate
AppendProductIfParsed(all, data) ==
    IF DOMAIN data = {K_Ssylka, K_Artikul} THEN all ELSE Append(all, data)

\* all_products_data.append(product_data)
AppendProduct(all, data) == Append(all, data)

NaN == [t |-> "NaN", s |-> <<>>, n |-> 0, k |-> 0]

\* pd.DataFrame(all_products_data) with the column names' whitespace
\* collapsed: one row per record, in the list's order, NaN where a record
\* lacks a column.  The order of the columns and the CSV file are not
\* modelled; they leave the rows alone.
DataFrame(all) ==
    LET columns == UNION {DOMAIN all[i] : i \in 1..Len(all)}
        renamed(c) == Strip(CollapseSpaces(c))
    IN  [i \in 1..Len(all) |->
            [c \in {renamed(x) : x \in columns} |->
                IF \E x \in DOMAIN all[i] : renamed(x) = c
                THEN all[i][CHOOSE x \in DOMAIN all[i] : renamed(x) = c]
                ELSE NaN]]

\* sample sections of a product page
ParamsA ==
    << CharItem(Elem(<<"V", "k", "u", "s">>), NoElem, NoElem, NoElem, NoMeta, Elem(<<"x">>)) >>

\* characteristics whose names are keys of the offer, of the composition and
\* of the caller too
ParamsB ==
    << CharItem(Elem(K_Nazvanie), NoElem, NoElem, NoElem, NoMeta, Elem(<<"x">>)),
       CharItem(Elem(K_Sostav), Elem(<<"b">>), NoElem, NoElem, NoMeta, NoElem),
       CharItem(Elem(K_Ssylka), NoElem, NoElem, NoElem, Meta(Elem(<<"c">>)), NoElem),
       CharItem(Elem(<<"V", "e", "s", " ", "k", "g">>), NoElem, NoElem,
                Elem(<<"0", ",", "5">>), NoMeta, NoElem) >>

OfferA ==
    OfferSection(Elem(<<"T">>), Elem(<<"9", "9", ".", "9", "0", " ", "RUB">>), NoElem, NoElem,
                 RatingBlock(Elem(<<"4", ".", "5">>), Elem(<<"1", "2", " ", "3">>)))

NutritionA ==
    [list_container |-> TRUE,
     items |-> << [title |-> Elem(<<"B">>), value |-> Elem(<<"5", ".", "4", " ", "g">>)],
                  [title |-> Elem(K_Rejting), value |-> Elem(<<"3">>)] >>]

SostavA == [marked_text |-> TRUE, paragraphs |-> << <<"a", " ">>, <<"b">> >>]

\* what collect_product_data can return: for each section the subtrees found
Pages ==
    [det : {<<>>, <<ParamsA>>, <<ParamsB, ParamsA>>},
     inf : {<<>>, <<OfferA>>, <<NoOfferSection, OfferA>>},
     nutr : {<<>>, <<NutritionA>>},
     sostav : {<<>>, <<SostavA>>}]

Rows ==
    { [link |-> <<"u1">>, product_id |-> Elem(<<"7">>)],
      [link |-> <<"u2">>, product_id |-> Elem(<<"8">>)],
      [link |-> <<"u2">>, product_id |-> NoElem] }

RECURSIVE RowSeqs(_)
RowSeqs(n) ==
    IF n = 0 THEN {<<>>}
    ELSE RowSeqs(n - 1) \cup {Append(s, r) : s \in {x \in RowSeqs(n - 1) : Len(x) = n - 1}, r \in Rows}

NoRow == [link |-> <<>>, product_id |-> NoElem]

MainIdle ==
    /\ df = <<>>
    /\ index = 0
    /\ row = NoRow
    /\ det = <<>> /\ inf = <<>> /\ nutr = <<>> /\ sostav = <<>>
    /\ has_all_sections = FALSE
    /\ invoked = FALSE
    /\ product_data = EmptyDict
    /\ all_products_data = <<>>
    /\ final_df = <<>>
    /\ m_pc = "idle"

\* index counts the rows whose record has been appended
MainInit ==
    /\ df \in RowSeqs(MaxRows)
    /\ index = 0
    /\ row = NoRow
    /\ det = <<>> /\ inf = <<>> /\ nutr = <<>> /\ sostav = <<>>
    /\ has_all_sections = FALSE
    /\ invoked = FALSE
    /\ product_data = EmptyDict
    /\ all_products_data = <<>>
    /\ final_df = <<>>
    /\ m_pc = "row"

\* the next row is taken, its page fetched and the gate evaluated
MainCollect ==
    /\ m_pc = "row"
    /\ index < Len(df)
    /\ row' = df[index + 1]
    /\ \E page \in Pages :
        /\ det' = page.det
        /\ inf' = page.inf
        /\ nutr' = page.nutr
        /\ sostav' = page.sostav
        /\ has_all_sections' = HasAllSections(page.det, page.inf, page.nutr, page.sostav)
    /\ invoked' = FALSE
    /\ m_pc' = "parse"
    /\ UNCHANGED <<df, index, product_data, all_products_data, final_df>>
    /\ UNCHANGED notMain

\* the conditional expression: with the gate open, the first subtree of each
\* collection is handed to parse_all_sections; x[0] of an empty collection
\* is IndexError, which nothing catches
MainParse ==
    /\ m_pc = "parse"
    /\ IF has_all_sections
       THEN IF Len(det) = 0 \/ Len(inf) = 0 \/ Len(nutr) = 0 \/ Len(sostav) = 0
            THEN /\ m_pc' = "raised"
                 /\ UNCHANGED <<product_data, invoked>>
            ELSE /\ product_data' = ParseAllSections(<<det[1], inf[1], nutr[1], sostav[1]>>)
                 /\ invoked' = TRUE
                 /\ m_pc' = "append"
       ELSE /\ product_data' = EmptyDict
            /\ m_pc' = "append"
            /\ UNCHANGED invoked
    /\ UNCHANGED <<df, index, row, det, inf, nutr, sostav, has_all_sections,
                   all_products_data, final_df>>
    /\ UNCHANGED notMain

\* the identity keys are set and the record appended
MainAppend ==
    /\ m_pc = "append"
    /\ product_data' = WithIdentity(product_data, row)
    /\ all_products_data' = AppendProduct(all_products_data, product_data')
    /\ index' = index + 1
    /\ m_pc' = "row"
    /\ UNCHANGED <<df, row, det, inf, nutr, sostav, has_all_sections, invoked, final_df>>
    /\ UNCHANGED notMain

\* after the last row the table is built
MainFinish ==
    /\ m_pc = "row"
    /\ index = Len(df)
    /\ final_df' = DataFrame(all_products_data)
    /\ m_pc' = "done"
    /\ UNCHANGED <<df, index, row, det, inf, nutr, sostav, has_all_sections, invoked,
                   product_data, all_products_data>>
    /\ UNCHANGED notMain

MainNext == MainCollect \/ MainParse \/ MainAppend \/ MainFinish

---------------------------------------------------------------------------
(* extract_product_data and clean_price of parser_products.py *)

BASE_URL == <<"https://magnit.ru">>

\* urljoin(base, href) for an empty, a rooted ("/...") and a relative href
Urljoin(base, href) ==
    IF href = <<>> THEN base
    ELSE IF Head(href) = "/" THEN base \o href
    ELSE base \o <<"/">> \o href

\* clean_price(price_str): a float, or None on ValueError
clean_price(price_str) ==
    LET parsed == PyFloat(Replace(Remove(Remove(price_str, " "), "RUB"), ",", "."))
    IN  IF parsed.ok THEN parsed.v ELSE None

\* round(p / q) for q > 0: to the nearest integer, a tie to the even one
Round(p, q) ==
    LET f == p \div q
        r == p - f * q
    IN  IF 2 * r < q THEN f
        ELSE IF 2 * r > q THEN f + 1
        ELSE IF f % 2 = 0 THEN f ELSE f + 1

\* round((1 - new_price/old_price)*100), in exact arithmetic: the rounding
\* error of the binary float operations is not modelled
Discount(old_price, new_price) ==
    LET q == old_price.n * Pow10(new_price.k)
        p == 100 * (q - new_price.n * Pow10(old_price.k))
    IN  IF q > 0 THEN Round(p, q) ELSE Round(-p, -q)

\* the mapping extract_product_data starts from
ProductEmpty ==
    [title |-> StrV(<<>>), link |-> StrV(<<>>), description |-> StrV(<<>>),
     regular_price |-> StrV(<<>>), sale_price |-> StrV(<<>>), discount |-> StrV(<<>>),
     sale_period |-> StrV(<<>>), favorite |-> StrV(<<>>), labels |-> StrV(<<>>),
     badges |-> StrV(<<>>)]

\* A catalog card.  link_tag is [present, href, title], prices is
\* [present, regular, sale], badges is [present, items].
Card(link_tag, description, prices, favorite, labels, badges) ==
    [link_tag |-> link_tag, description |-> description, prices |-> prices,
     favorite |-> favorite, labels |-> labels, badges |-> badges]

Anchor(href, title) == [present |-> TRUE, href |-> href, title |-> title]
NoAnchor == [present |-> FALSE, href |-> NoElem, title |-> NoElem]
Prices(regular, sale) == [present |-> TRUE, regular |-> regular, sale |-> sale]
NoPrices == [present |-> FALSE, regular |-> NoElem, sale |-> NoElem]
Badges(items) == [present |-> TRUE, items |-> items]
NoBadges == [present |-> FALSE, items |-> <<>>]

\* what a try block leaves: the mapping, or an exception it does not catch
Returned(prod) == [raised |-> "", product |-> prod]
Raised(exception, prod) == [raised |-> exception, product |-> prod]

\* link and title: a missing anchor is TypeError, caught; an anchor without
\* href is KeyError, which the block does not catch
CardLink(prod, c) ==
    IF ~c.link_tag.present THEN Returned(prod)
    ELSE IF ~c.link_tag.href.present THEN Raised("KeyError", prod)
    ELSE Returned([prod EXCEPT
            !.link = StrV(Urljoin(BASE_URL, c.link_tag.href.text)),
            !.title = StrV(IF c.link_tag.title.present THEN c.link_tag.title.text ELSE <<>>)])

CardDescription(prod, c) ==
    IF c.description.present
    THEN [prod EXCEPT !.description = StrV(Strip(c.description.text))]
    ELSE prod

\* the prices block: regular price, sale price, then the discount; the first
\* missing element ends the block
CardPrices(prod, c) ==
    IF ~c.prices.present \/ ~c.prices.regular.present THEN prod
    ELSE LET regular == Strip(c.prices.regular.text)
             withRegular == [prod EXCEPT !.regular_price = StrV(regular)]
         IN  IF ~c.prices.sale.present THEN withRegular
             ELSE LET sale == Strip(c.prices.sale.text)
                      withSale == [withRegular EXCEPT !.sale_price = StrV(sale)]
                      old_price == clean_price(regular)
                      new_price == clean_price(sale)
                  IN  IF regular # <<>> /\ sale # <<>>
                         /\ Truthy(old_price) /\ Truthy(new_price)
                      THEN [withSale EXCEPT
                               !.discount = IntV(Discount(old_price, new_price))]
                      ELSE withSale

CardFavorite(prod, c) ==
    IF c.favorite.present
    THEN [prod EXCEPT !.favorite = StrV(Strip(c.favorite.text))]
    ELSE prod

CardLabels(prod, c) ==
    IF c.labels.present
    THEN [prod EXCEPT !.labels = StrV(Strip(c.labels.text))]
    ELSE prod

RECURSIVE JoinSemicolon(_)
\* '; '.join(texts)
JoinSemicolon(texts) ==
    IF texts = <<>> THEN <<>>
    ELSE IF Len(texts) = 1 THEN texts[1]
    ELSE texts[1] \o <<";", " ">> \o JoinSemicolon(Tail(texts))

CardBadges(prod, c) ==
    IF c.badges.present
    THEN [prod EXCEPT !.badges =
            StrV(JoinSemicolon([i \in 1..Len(c.badges.items) |-> Strip(c.badges.items[i])]))]
    ELSE prod

SalePriceAlphabet == {"0", "5", ",", " ", "RUB"}

SalePriceTexts ==
    SeqsUpTo(SalePriceAlphabet, MaxPriceLen)
        \cup { <<"8", "5", " ", "RUB">>, <<"1", "NBSP", "0", "0", "0">> }

RegularPriceTexts ==
    { <<>>, <<"1", "0", "0">>, <<"3">>, <<"0">>, <<"x">>,
      <<"1", " ", "2", "3", "4", ",", "5", "0", " ", "RUB">> }

Cards ==
    { Card(a, d, p, f, l, b) :
        a \in {NoAnchor, Anchor(NoElem, Elem(<<"t">>)), Anchor(Elem(<<"/", "p">>), NoElem),
               Anchor(Elem(<<"/", "p">>), Elem(<<"t">>))},
        d \in {NoElem, Elem(<<" ", "d">>)},
        p \in {NoPrices} \cup
              { Prices(r, s) :
                  r \in {NoElem} \cup {Elem(x) : x \in RegularPriceTexts},
                  s \in {NoElem} \cup {Elem(x) : x \in SalePriceTexts} },
        f \in {NoElem, Elem(<<"f">>)},
        l \in {NoElem, Elem(<<"n">>)},
        b \in {NoBadges, Badges(<< <<"a", " ">>, <<"b">> >>)} }

NoCard == Card(NoAnchor, NoElem, NoPrices, NoElem, NoElem, NoBadges)

CardIdle ==
    /\ card = NoCard
    /\ product = ProductEmpty
    /\ p_exc = ""
    /\ p_pc = "idle"

CardInit ==
    /\ card \in Cards
    /\ product = ProductEmpty
    /\ p_exc = ""
    /\ p_pc = "link"

\* the anchor block; an exception it does not catch leaves the function
CardLinkStep ==
    /\ p_pc = "link"
    /\ LET out == CardLink(product, card)
       IN  /\ product' = out.product
           /\ p_exc' = out.raised
           /\ p_pc' = IF out.raised = "" THEN "description" ELSE "raised"
    /\ UNCHANGED card
    /\ UNCHANGED notCard

CardDescriptionStep ==
    /\ p_pc = "description"
    /\ product' = CardDescription(product, card)
    /\ p_pc' = "prices"
    /\ UNCHANGED <<card, p_exc>>
    /\ UNCHANGED notCard

CardPricesStep ==
    /\ p_pc = "prices"
    /\ product' = CardPrices(product, card)
    /\ p_pc' = "favorite"
    /\ UNCHANGED <<card, p_exc>>
    /\ UNCHANGED notCard

CardFavoriteStep ==
    /\ p_pc = "favorite"
    /\ product' = CardFavorite(product, card)
    /\ p_pc' = "labels"
    /\ UNCHANGED <<card, p_exc>>
    /\ UNCHANGED notCard

CardLabelsStep ==
    /\ p_pc = "labels"
    /\ product' = CardLabels(product, card)
    /\ p_pc' = "badges"
    /\ UNCHANGED <<card, p_exc>>
    /\ UNCHANGED notCard

CardBadgesStep ==
    /\ p_pc = "badges"
    /\ product' = CardBadges(product, card)
    /\ p_pc' = "done"
    /\ UNCHANGED <<card, p_exc>>
    /\ UNCHANGED notCard

CardNext ==
    \/ CardLinkStep \/ CardDescriptionStep \/ CardPricesStep
    \/ CardFavoriteStep \/ CardLabelsStep \/ CardBadgesStep

---------------------------------------------------------------------------
(* Specifications: one per function under study, the others idle *)

\* the detail driver
Init == MainInit /\ NutrIdle /\ CharIdle /\ OfferIdle /\ CardIdle
Next == MainNext
Spec == Init /\ [][Next]_vars

InitNutr == NutrInit /\ CharIdle /\ OfferIdle /\ MainIdle /\ CardIdle
SpecNutr == InitNutr /\ [][NutrNext]_vars

InitChar == CharInit /\ NutrIdle /\ OfferIdle /\ MainIdle /\ CardIdle
SpecChar == InitChar /\ [][CharNext]_vars

InitOffer == OfferInit /\ NutrIdle /\ CharIdle /\ MainIdle /\ CardIdle
SpecOffer == InitOffer /\ [][OfferNext]_vars

InitCard == CardInit /\ NutrIdle /\ CharIdle /\ OfferIdle /\ MainIdle
SpecCard == InitCard /\ [][CardNext]_vars

---------------------------------------------------------------------------
(* C1 *)

\* C1: no extractor ever raises; in particular extract_product_data returns
\* its mapping for every card, also for one whose anchor has no href.
C1_NeverRaises == p_pc # "raised"

---------------------------------------------------------------------------
(* C4 *)

\* C4: field-level isolation in a catalog card.  Whatever else is missing,
\* every field whose own element is present holds that element's text; in
\* particular the sale price is taken from its element whether or not the
\* regular-price element is there.
C4_FieldIsolation ==
    p_pc = "done" =>
        /\ card.description.present =>
              product.description = StrV(Strip(card.description.text))
        /\ (card.prices.present /\ card.prices.regular.present) =>
              product.regular_price = StrV(Strip(card.prices.regular.text))
        /\ (card.prices.present /\ card.prices.sale.present) =>
              product.sale_price = StrV(Strip(card.prices.sale.text))
        /\ card.favorite.present => product.favorite = StrV(Strip(card.favorite.text))
        /\ card.labels.present => product.labels = StrV(Strip(card.labels.text))

---------------------------------------------------------------------------
(* C5 *)

\* a price text with the currency sign, the spaces and the no-break spaces
\* removed and the comma read as the decimal point
NormalizedPrice(text) ==
    Replace(Remove(Remove(Remove(Remove(text, "RUB"), " "), "NBSP"), "NNBSP"), ",", ".")

PriceIs(value, text) ==
    IF IsNumeral(NormalizedPrice(text))
    THEN value.t = "float" /\ DenotesNumeral(value, NormalizedPrice(text))
    ELSE value = None

\* C5: price normalisation in parse_offer.  The current and the old price
\* are the number their text denotes once the currency sign, spaces and
\* no-break spaces are removed and the comma is read as the decimal point
\* ("1 234,50 RUB" is 1234.5), and None when that is no number.
C5_PriceNormalization ==
    o_pc = "done" =>
        /\ o_section.price_current.present =>
              PriceIs(offer[K_TekuschayaCena], o_section.price_current.text)
        /\ o_section.price_old.present =>
              PriceIs(offer[K_StarayaCena], o_section.price_old.text)

---------------------------------------------------------------------------
(* C6 *)

\* d is p / q (q > 0) rounded to the nearest integer, a tie to the even one
IsRounded(d, p, q) ==
    LET e == IF d * q >= p THEN d * q - p ELSE p - d * q
    IN  2 * e <= q /\ (2 * e = q => d % 2 = 0)

\* C6: derived discount.  When the regular and the sale price of a card both
\* parse as numbers, the discount is round(100 * (1 - sale/regular)); when
\* either is missing or does not parse, the discount is left empty.  (A
\* regular price of zero has no such quotient and is left out.)
C6_DerivedDiscount ==
    p_pc = "done" =>
        LET old == clean_price(Strip(card.prices.regular.text))
            new == clean_price(Strip(card.prices.sale.text))
            both == /\ card.prices.present
                    /\ card.prices.regular.present /\ card.prices.sale.present
                    /\ old.t = "float" /\ new.t = "float"
        IN  IF both
            THEN old.n # 0 =>
                    /\ product.discount.t = "int"
                    /\ IsRounded(product.discount.n,
                                 100 * (old.n * Pow10(new.k) - new.n * Pow10(old.k)),
                                 old.n * Pow10(new.k))
            ELSE product.discount = StrV(<<>>)

---------------------------------------------------------------------------
(* C9 *)

\* C9: nutrition typing.  For the list item a loop iteration handles (it has a
\* title and an adjacent value element), the value text is filtered to its
\* digits and points; a text without any digit, and a filtered string that is
\* no valid number, leave the mapping as it was and the loop goes on to the
\* next item; otherwise the item's key holds the number the filtered string
\* denotes, a float exactly when the filtered string contains a point and an
\* int otherwise, and no other key changes.
C9_NutritionTyping ==
    [][ (n_pc = "loop" /\ n_count' = n_count + 1) =>
            LET item == n_item'
                both == item.title.present /\ item.value.present
                name == Strip(item.title.text)
                f == SelectSeq(item.value.text, LAMBDA c : IsDigit(c) \/ c = ".")
            IN  /\ n_pc' = "loop"
                /\ both /\ (\A i \in 1..Len(item.value.text) : ~IsDigit(item.value.text[i]))
                       => nutrition' = nutrition
                /\ both /\ ~IsNumeral(f) => nutrition' = nutrition
                /\ both /\ IsNumeral(f) =>
                       /\ DOMAIN nutrition' = DOMAIN nutrition \cup {name}
                       /\ nutrition'[name].t = (IF Contains(f, ".") THEN "float" ELSE "int")
                       /\ DenotesNumeral(nutrition'[name], f)
                       /\ \A x \in DOMAIN nutrition : x # name => nutrition'[x] = nutrition[x]
      ]_vars

\* the spec's two examples after an earlier item failed: "5.4 g" recorded as
\* the float 5.4 and "120 k" as the integer 120
C9_Witness ==
    /\ n_count = 2
    /\ n_item.title.present
    /\ n_item.value.text = <<"5", ".", "4", " ", "g">>
    /\ nutrition[Strip(n_item.title.text)] = FloatV(54, 1)
    /\ \E x \in DOMAIN nutrition : nutrition[x] = IntV(120)

---------------------------------------------------------------------------
(* C7 *)

\* the five places a value can come from, in the order of the chain; the
\* text of the meta element is its content attribute, '' without one
CharSources(item) ==
    <<item.brand, item.manufacturer, item.weight,
      [present |-> item.meta.present,
       text |-> IF item.meta.content.present THEN item.meta.content.text ELSE <<>>],
      item.value_span>>

FirstOf(indices) == CHOOSE i \in indices : \A j \in indices : i <= j

\* C7 as stated: the value is taken from the first source, in the order
\* brand, manufacturer, weight, value attribute, primary-text span, that
\* yields a (non-empty) value; a later source is used only when every earlier
\* one yields none.
C7_FirstSourceWithValue ==
    c_pc = "record" =>
        LET S == CharSources(c_item)
            yields == {i \in 1..Len(S) : S[i].present /\ Strip(S[i].text) # <<>>}
        IN  c_value = IF yields = {} THEN <<>> ELSE Strip(S[FirstOf(yields)].text)

\* C7 amended: the value is the stripped text of the first source whose
\* element is present in the item, in the same order, even when that text is
\* empty; a later source is read only when every earlier element is missing;
\* without any source the value is empty.
C7_FirstPresentSource ==
    c_pc = "record" =>
        LET S == CharSources(c_item)
            found == {i \in 1..Len(S) : S[i].present}
        IN  c_value = IF found = {} THEN <<>> ELSE Strip(S[FirstOf(found)].text)

\* an item with a brand marker and a value attribute yields the brand
C7_Witness ==
    /\ c_pc = "record"
    /\ c_item.brand.present
    /\ c_item.meta.present /\ c_item.meta.content.present
    /\ Strip(c_item.meta.content.text) # <<>>
    /\ c_value = <<"b">>

---------------------------------------------------------------------------
(* C8 *)

\* C8: recording rule.  An item is skipped exactly when its name or its value
\* is empty; every other item is recorded under its synonym-mapped name, as a
\* float when the name holds a keyword and the value, comma read as point,
\* is a number ("12" and "0" alike), and as the original string otherwise.
C8_RecordingRule ==
    [][ (c_pc = "record" /\ c_pc' = "loop") =>
            LET key == name_mapping(c_name)
                numeric == /\ \E keyword \in keywords : IsSubstring(keyword, Lower(c_name))
                           /\ IsNumeral(Strip(Replace(c_value, ",", ".")))
            IN  IF c_name = <<>> \/ c_value = <<>>
                THEN characteristics' = characteristics
                ELSE /\ key \in DOMAIN characteristics'
                     /\ IF numeric
                        THEN /\ characteristics'[key].t = "float"
                             /\ DenotesNumeral(characteristics'[key],
                                               Strip(Replace(c_value, ",", ".")))
                        ELSE characteristics'[key] = StrV(c_value)
      ]_vars

---------------------------------------------------------------------------
(* C2 *)

\* C2: the all-or-nothing gate.  Every row gets a record.  When at least one
\* of the four collections fetched for the row is empty, parse_all_sections
\* is not called and the row's record holds the two identity keys and nothing
\* else; when all four are non-empty, the record is the merge of the first
\* subtree of each collection with the two identity keys set on top.
C2_SectionGate ==
    /\ m_pc # "raised"
    /\ (m_pc = "row" /\ index > 0) =>
          LET rec == all_products_data[index]
              missing == det = <<>> \/ inf = <<>> \/ nutr = <<>> \/ sostav = <<>>
          IN  IF missing
              THEN /\ ~invoked
                   /\ DOMAIN rec = {K_Ssylka, K_Artikul}
              ELSE /\ invoked
                   /\ rec = WithIdentity(
                                ParseAllSections(
                                    <<Head(det), Head(inf), Head(nutr), Head(sostav)>>),
                                df[index])

\* the spec's scenario: only the nutrition collection is empty, and the
\* record is the identity keys alone
C2_Witness ==
    /\ m_pc = "row" /\ index > 0
    /\ nutr = <<>> /\ det # <<>> /\ inf # <<>> /\ sostav # <<>>
    /\ DOMAIN all_products_data[index] = {K_Ssylka, K_Artikul}

---------------------------------------------------------------------------
(* C3 *)

\* the four section mappings of the row being parsed, in merge order
SectionMappings ==
    <<ParseCharacteristics(Head(det)), ParseOffer(Head(inf)),
      ParseNutrition(Head(nutr)), ParseAdditionalInfo(Head(sostav))>>

\* C3: merge precedence.  The combined record has exactly the keys of the
\* four section mappings, and each key holds the value of the last mapping,
\* in the order characteristics, offer, nutrition, composition, that has it.
C3_MergePrecedence ==
    (m_pc = "append" /\ invoked) =>
        LET S == SectionMappings
        IN  /\ DOMAIN product_data = UNION {DOMAIN S[i] : i \in 1..Len(S)}
            /\ \A key \in DOMAIN product_data :
                  LET last == CHOOSE i \in 1..Len(S) :
                                  /\ key \in DOMAIN S[i]
                                  /\ \A j \in 1..Len(S) : key \in DOMAIN S[j] => j <= i
                  IN  product_data[key] = S[last][key]

\* a characteristic named like the offer's title key loses to the offer
C3_Witness ==
    /\ m_pc = "append" /\ invoked
    /\ K_Nazvanie \in DOMAIN SectionMappings[1]
    /\ SectionMappings[2][K_Nazvanie].t = "str"
    /\ SectionMappings[1][K_Nazvanie] # SectionMappings[2][K_Nazvanie]
    /\ product_data[K_Nazvanie] = SectionMappings[2][K_Nazvanie]

---------------------------------------------------------------------------
(* C10 *)

RowIdentity(r) ==
    [link |-> StrV(r.link),
     id |-> StrV(IF r.product_id.present THEN r.product_id.text ELSE <<>>)]

\* C10: input order.  After k rows the list holds k records and the i-th
\* carries the link and the product id of the i-th row, whether or not the
\* product passed the gate; the final table has one row per input row in
\* the same order.
C10_InputOrder ==
    /\ Len(all_products_data) = index
    /\ \A i \in 1..Len(all_products_data) :
          /\ all_products_data[i][K_Ssylka] = RowIdentity(df[i]).link
          /\ all_products_data[i][K_Artikul] = RowIdentity(df[i]).id
    /\ m_pc = "done" =>
          /\ Len(final_df) = Len(df)
          /\ \A i \in 1..Len(final_df) :
                /\ final_df[i][K_Ssylka] = RowIdentity(df[i]).link
                /\ final_df[i][K_Artikul] = RowIdentity(df[i]).id

\* two different rows, the first failing the gate and the second passing it
C10_Witness ==
    /\ m_pc = "done"
    /\ Len(df) >= 2
    /\ df[1] # df[2]
    /\ DOMAIN all_products_data[1] = {K_Ssylka, K_Artikul}
    /\ DOMAIN all_products_data[2] # {K_Ssylka, K_Artikul}

=============================================================================
